---- MODULE Spec2Model ----
(***************************************************************************)
(* bambusy.py: one script that drives many Bambu printers over LAN.        *)
(* The model follows main() -> cmd_list / cmd_home / cmd_calibrate, one    *)
(* action per statement group between two calls that may raise.  The       *)
(* collaborators (BambuPrinter.start_session, client.publish, quit) may    *)
(* succeed or raise; time.sleep raises ValueError on a negative duration.  *)
(***************************************************************************)
EXTENDS Integers, Sequences, FiniteSets, TLC

\* ---------------------------------------------------------------- bounds
MaxId == 2          \* requested ids are drawn from 1..MaxId
MaxReq == 2         \* at most this many ids in --printers
MaxRoster == 2      \* at most this many entries in the config
MaxFaults == 2      \* at most this many collaborator calls raise in one run
MaxChunks == 3      \* at most this many comma-separated chunks (SpecFunctions)

\* ------------------------------------------------------- program constants
BIT_BED_LEVELING == 2
BIT_VIBRATION == 4
BIT_MOTOR_NOISE == 8

\* None: Python's None for the local bp (sessions are numbered from 1).
None == 0

\* ------------------------------------------------------------ pure helpers
RECURSIVE BitOr(_, _)
BitOr(a, b) ==
  IF a = 0 THEN b
  ELSE IF b = 0 THEN a
  ELSE (IF a % 2 = 1 \/ b % 2 = 1 THEN 1 ELSE 0) + 2 * BitOr(a \div 2, b \div 2)

\* Mutant: vibration sets the bed-leveling bit.
build_calibration_option_shared_bit(bed_leveling, vibration, motor_noise) ==
  LET o1 == IF bed_leveling THEN BitOr(0, BIT_BED_LEVELING) ELSE 0
      o2 == IF vibration THEN BitOr(o1, BIT_BED_LEVELING) ELSE o1
      o3 == IF motor_noise THEN BitOr(o2, BIT_MOTOR_NOISE) ELSE o2
  IN o3

build_calibration_option(bed_leveling, vibration, motor_noise) ==
  LET o1 == IF bed_leveling THEN BitOr(0, BIT_BED_LEVELING) ELSE 0
      o2 == IF vibration THEN BitOr(o1, BIT_VIBRATION) ELSE o1
      o3 == IF motor_noise THEN BitOr(o2, BIT_MOTOR_NOISE) ELSE o2
  IN o3

\* A chunk of --printers is a sequence of characters; the argument itself is
\* kept as the sequence of its comma-separated chunks (raw.split(",")).
DigitChar == <<"1", "2", "3", "4", "5", "6", "7", "8", "9">>
IsDigit(c) == \E d \in DOMAIN DigitChar : DigitChar[d] = c
DigitVal(c) == IF c = "0" THEN 0 ELSE CHOOSE d \in DOMAIN DigitChar : DigitChar[d] = c

RECURSIVE LStrip(_)
LStrip(s) == IF s # <<>> /\ Head(s) = " " THEN LStrip(Tail(s)) ELSE s
RECURSIVE RStrip(_)
RStrip(s) ==
  IF s # <<>> /\ s[Len(s)] = " " THEN RStrip(SubSeq(s, 1, Len(s) - 1)) ELSE s
Strip(s) == RStrip(LStrip(s))

\* int(text) for a stripped chunk: decimal digits only; anything else raises.
IntOk(s) == s # <<>> /\ \A k \in DOMAIN s : IsDigit(s[k]) \/ s[k] = "0"
RECURSIVE IntVal(_)
IntVal(s) ==
  IF s = <<>> THEN 0 ELSE 10 * IntVal(SubSeq(s, 1, Len(s) - 1)) + DigitVal(s[Len(s)])

\* Mutant: the filter tests the chunk, not the stripped chunk (if chunk).
parse_printer_ids_unstripped_filter(raw) ==
  LET kept == SelectSeq(raw, LAMBDA chunk : chunk # <<>>)
  IN IF \E k \in DOMAIN kept : ~IntOk(Strip(kept[k]))
     THEN [raised |-> TRUE, ids |-> <<>>]
     ELSE [raised |-> FALSE, ids |-> [k \in DOMAIN kept |-> IntVal(Strip(kept[k]))]]

\* parse_printer_ids: [int(chunk.strip()) for chunk in raw.split(",") if chunk.strip()]
parse_printer_ids(raw) ==
  LET kept == SelectSeq(raw, LAMBDA chunk : Strip(chunk) # <<>>)
  IN IF \E k \in DOMAIN kept : ~IntOk(Strip(kept[k]))
     THEN [raised |-> TRUE, ids |-> <<>>]
     ELSE [raised |-> FALSE, ids |-> [k \in DOMAIN kept |-> IntVal(Strip(kept[k]))]]

\* by_id = {p.id: p for p in printers}: a later entry with the same id wins.
ById(printers) ==
  [i \in {printers[k].id : k \in DOMAIN printers} |->
     printers[CHOOSE k \in DOMAIN printers :
                /\ printers[k].id = i
                /\ \A j \in DOMAIN printers : printers[j].id = i => j <= k]]

\* Mutant: the error names only the first missing id.
select_printers_first_missing(printers, requested_ids) ==
  LET by_id == ById(printers)
      missing == SelectSeq(requested_ids, LAMBDA pid : pid \notin DOMAIN by_id)
  IN IF missing # <<>>
     THEN [raised |-> TRUE, missing |-> <<Head(missing)>>, result |-> <<>>]
     ELSE [raised |-> FALSE, missing |-> <<>>,
           result |-> [k \in DOMAIN requested_ids |-> by_id[requested_ids[k]]]]

\* Mutant: the result is the roster filtered by the request, in roster order.
select_printers_roster_order(printers, requested_ids) ==
  LET by_id == ById(printers)
      missing == SelectSeq(requested_ids, LAMBDA pid : pid \notin DOMAIN by_id)
      wanted == {requested_ids[k] : k \in DOMAIN requested_ids}
  IN IF missing # <<>>
     THEN [raised |-> TRUE, missing |-> missing, result |-> <<>>]
     ELSE [raised |-> FALSE, missing |-> <<>>,
           result |-> SelectSeq(printers, LAMBDA p : p.id \in wanted)]

select_printers(printers, requested_ids) ==
  LET by_id == ById(printers)
      missing == SelectSeq(requested_ids, LAMBDA pid : pid \notin DOMAIN by_id)
  IN IF missing # <<>>
     THEN [raised |-> TRUE, missing |-> missing, result |-> <<>>]
     ELSE [raised |-> FALSE, missing |-> <<>>,
           result |-> [k \in DOMAIN requested_ids |-> by_id[requested_ids[k]]]]

\* The two command payloads and their serialisation.  json.dumps writes the
\* keys in insertion order: command, sequence_id and, for calibration, option.
home_payload == [command |-> "home", sequence_id |-> "1"]
cal_payload(option) == [command |-> "calibration", sequence_id |-> "2", option |-> option]
JsonDumps(payload) ==
  IF "option" \in DOMAIN payload
  THEN <<payload.command, payload.sequence_id, payload.option>>
  ELSE <<payload.command, payload.sequence_id>>

\* time.sleep(secs) raises ValueError when secs is negative.
SleepRaises(secs) == secs < 0

\* ------------------------------------------------------------------ state
VARIABLES
  args,       \* parse_args(): the parsed command line
  config_ok,  \* whether load_config(path) returns (FALSE: it raises)
  roster,     \* the entries the config file holds
  printers,   \* main's local: the loaded entries
  pc,         \* position of the single thread of control
  requested,  \* cmd_home / cmd_calibrate local: parse_printer_ids' result
  targets,    \* cmd_home / cmd_calibrate local: select_printers' result
  option,     \* cmd_calibrate local: the option mask
  idx,        \* position of the for loop in targets (entry = targets[idx])
  ws_bp,      \* with_session's local bp
  bp,         \* cmd_home / cmd_calibrate local bp (None or a session)
  exc,        \* the exception in flight, "" when none
  sessions,   \* every BambuPrinter session started, in order
  trace,      \* every print and every collaborator call, in order
  status,     \* main's return value, -1 while running
  faults      \* collaborator calls that raised so far

vars == <<args, config_ok, roster, printers, pc, requested, targets, option, idx,
          ws_bp, bp, exc, sessions, trace, status, faults>>

inputs == <<args, config_ok, roster>>
selection == <<requested, targets>>

\* One line of output or one call to a collaborator.
Ev(kind, pos, id) ==
  [kind |-> kind, pos |-> pos, id |-> id, doc |-> <<>>, num |-> 0, text |-> "",
   ids |-> <<>>, sess |-> 0, res |-> ""]
EvDoc(kind, pos, id, doc) == [Ev(kind, pos, id) EXCEPT !.doc = doc]
EvNum(kind, pos, id, num) == [Ev(kind, pos, id) EXCEPT !.num = num]
EvText(kind, pos, id, text) == [Ev(kind, pos, id) EXCEPT !.text = text]
EvRes(kind, pos, id, res) == [Ev(kind, pos, id) EXCEPT !.res = res]

entry == targets[idx]

\* ------------------------------------------------------------------- Init
Entry(i) == [id |-> i, serial |-> 10 * i]
Roster(n) == [k \in 1..n |-> Entry(n + 1 - k)]
Rosters == {Roster(n) : n \in 0..MaxRoster}

SeqsUpTo(S, n) == UNION {[1..k -> S] : k \in 0..n}
Chunk(i) == <<DigitChar[i]>>
\* "".split(",") is [""]: an argument without ids is one empty chunk.
PrinterArg(ids) == IF ids = <<>> THEN <<<<>>>> ELSE [k \in DOMAIN ids |-> Chunk(ids[k])]
PrinterArgs == {PrinterArg(ids) : ids \in SeqsUpTo(1..MaxId, MaxReq)}

WaitValues == {-1, 1}

Args(cmd, raw, dry, ho, bl, vi, mn, cw, pw, cd) ==
  [cmd |-> cmd, printers |-> raw, dry_run |-> dry, home_only |-> ho,
   bed_leveling |-> bl, vibration |-> vi, motor_noise |-> mn,
   connect_wait |-> cw, post_wait |-> pw, calibration_delay |-> cd]

ListArgs ==
  {Args("list", <<>>, dry, FALSE, FALSE, FALSE, FALSE, cw, pw, 1) :
     dry \in BOOLEAN, cw \in WaitValues, pw \in WaitValues}
HomeArgs ==
  {Args("home", raw, x[1], FALSE, FALSE, FALSE, FALSE, x[2], x[3], 1) :
     raw \in PrinterArgs, x \in BOOLEAN \X WaitValues \X WaitValues}
\* The sub-test flags (bed_leveling, vibration, motor_noise) of a run: none,
\* one alone, and two together.
SubTests == {<<FALSE, FALSE, FALSE>>, <<TRUE, FALSE, FALSE>>, <<FALSE, TRUE, TRUE>>}
CalArgs ==
  {Args("calibrate", raw, f[1], f[2], t[1], t[2], t[3], w[1], w[2], w[3]) :
     raw \in PrinterArgs,
     f \in BOOLEAN \X BOOLEAN,
     t \in SubTests,
     w \in WaitValues \X WaitValues \X WaitValues}

Init ==
  /\ args \in ListArgs \cup HomeArgs \cup CalArgs
  /\ config_ok \in BOOLEAN
  /\ roster \in Rosters
  /\ printers = <<>>
  /\ pc = "main"
  /\ requested = <<>>
  /\ targets = <<>>
  /\ option = 0
  /\ idx = 0
  /\ ws_bp = None
  /\ bp = None
  /\ exc = ""
  /\ sessions = <<>>
  /\ trace = <<>>
  /\ status = -1
  /\ faults = 0

\* ---------------------------------------------------------------- helpers
Emit(evs) == trace' = trace \o evs
CanRaise == faults < MaxFaults

\* return code from main
Return(code) == /\ status' = code
                /\ pc' = "done"

\* ------------------------------------------------------------------- main
\* main, lines 256-263: load the config or report "Config error" and return 1.
MainLoadConfig ==
  /\ pc = "main"
  /\ IF config_ok
     THEN /\ printers' = roster
          /\ pc' = "dispatch"
          /\ UNCHANGED <<trace, status>>
     ELSE /\ Emit(<<Ev("config_error", 0, 0)>>)
          /\ Return(1)
          /\ UNCHANGED printers
  /\ UNCHANGED <<inputs, selection, option, idx, ws_bp, bp, exc, sessions, faults>>

\* Mutant: the empty roster is reported but the status stays 0.
CmdListEmptyReturnsZero ==
  /\ pc = "dispatch"
  /\ args.cmd = "list"
  /\ IF printers = <<>>
     THEN /\ Emit(<<Ev("no_printers", 0, 0)>>)
          /\ Return(0)
     ELSE /\ Emit(<<Ev("list_header", 0, 0)>>
                  \o [k \in DOMAIN printers |->
                        EvNum("list_line", k, printers[k].id, printers[k].serial)])
          /\ Return(0)
  /\ UNCHANGED <<inputs, printers, selection, option, idx, ws_bp, bp, exc, sessions,
                 faults>>

\* cmd_list, called from main line 267.
CmdList ==
  /\ pc = "dispatch"
  /\ args.cmd = "list"
  /\ IF printers = <<>>
     THEN /\ Emit(<<Ev("no_printers", 0, 0)>>)
          /\ Return(1)
     ELSE /\ Emit(<<Ev("list_header", 0, 0)>>
                  \o [k \in DOMAIN printers |->
                        EvNum("list_line", k, printers[k].id, printers[k].serial)])
          /\ Return(0)
  /\ UNCHANGED <<inputs, printers, selection, option, idx, ws_bp, bp, exc, sessions,
                 faults>>

\* What main's "except Exception" prints for an exception that leaves
\* cmd_home / cmd_calibrate before the loop (lines 274-276).
MainExcept(parsed, sel) ==
  IF parsed.raised
  THEN <<EvText("error", 0, 0, "invalid literal")>>
  ELSE <<[EvText("error", 0, 0, "unknown") EXCEPT !.ids = sel.missing]>>

\* cmd_home up to the loop, lines 180-183.
CmdHomeEnter ==
  /\ pc = "dispatch"
  /\ args.cmd = "home"
  /\ LET parsed == parse_printer_ids(args.printers)
         sel == select_printers(printers, parsed.ids)
     IN IF parsed.raised \/ sel.raised
        THEN /\ Emit(MainExcept(parsed, sel))
             /\ Return(1)
             /\ requested' = parsed.ids
             /\ UNCHANGED <<targets, idx>>
        ELSE /\ requested' = parsed.ids
             /\ targets' = sel.result
             /\ idx' = 1
             /\ pc' = "loop"
             /\ UNCHANGED <<trace, status>>
  /\ UNCHANGED <<inputs, printers, option, ws_bp, bp, exc, sessions, faults>>

\* Mutant: the option check lets a mask of 0 through (option < 0).
CmdCalibrateEnterNoCheck ==
  /\ pc = "dispatch"
  /\ args.cmd = "calibrate"
  /\ LET parsed == parse_printer_ids(args.printers)
         sel == select_printers(printers, parsed.ids)
         opt == build_calibration_option(args.bed_leveling, args.vibration,
                                         args.motor_noise)
     IN IF parsed.raised \/ sel.raised
        THEN /\ Emit(MainExcept(parsed, sel))
             /\ Return(1)
             /\ requested' = parsed.ids
             /\ UNCHANGED <<targets, idx, option>>
        ELSE IF ~args.home_only /\ opt < 0
        THEN /\ Emit(<<Ev("nothing_to_calibrate", 0, 0)>>)
             /\ Return(1)
             /\ requested' = parsed.ids
             /\ targets' = sel.result
             /\ option' = opt
             /\ UNCHANGED idx
        ELSE /\ requested' = parsed.ids
             /\ targets' = sel.result
             /\ option' = opt
             /\ idx' = 1
             /\ pc' = "loop"
             /\ UNCHANGED <<trace, status>>
  /\ UNCHANGED <<inputs, printers, ws_bp, bp, exc, sessions, faults>>

\* Mutant: the option mask is checked before the targets are selected.
CmdCalibrateEnterMaskFirst ==
  /\ pc = "dispatch"
  /\ args.cmd = "calibrate"
  /\ LET parsed == parse_printer_ids(args.printers)
         sel == select_printers(printers, parsed.ids)
         opt == build_calibration_option(args.bed_leveling, args.vibration,
                                         args.motor_noise)
     IN IF ~args.home_only /\ opt <= 0
        THEN /\ Emit(<<Ev("nothing_to_calibrate", 0, 0)>>)
             /\ Return(1)
             /\ option' = opt
             /\ UNCHANGED <<requested, targets, idx>>
        ELSE IF parsed.raised \/ sel.raised
        THEN /\ Emit(MainExcept(parsed, sel))
             /\ Return(1)
             /\ requested' = parsed.ids
             /\ UNCHANGED <<targets, idx, option>>
        ELSE /\ requested' = parsed.ids
             /\ targets' = sel.result
             /\ option' = opt
             /\ idx' = 1
             /\ pc' = "loop"
             /\ UNCHANGED <<trace, status>>
  /\ UNCHANGED <<inputs, printers, ws_bp, bp, exc, sessions, faults>>

\* cmd_calibrate up to the loop, lines 210-220.
CmdCalibrateEnter ==
  /\ pc = "dispatch"
  /\ args.cmd = "calibrate"
  /\ LET parsed == parse_printer_ids(args.printers)
         sel == select_printers(printers, parsed.ids)
         opt == build_calibration_option(args.bed_leveling, args.vibration,
                                         args.motor_noise)
     IN IF parsed.raised \/ sel.raised
        THEN /\ Emit(MainExcept(parsed, sel))
             /\ Return(1)
             /\ requested' = parsed.ids
             /\ UNCHANGED <<targets, idx, option>>
        ELSE IF ~args.home_only /\ opt <= 0
        THEN /\ Emit(<<Ev("nothing_to_calibrate", 0, 0)>>)
             /\ Return(1)
             /\ requested' = parsed.ids
             /\ targets' = sel.result
             /\ option' = opt
             /\ UNCHANGED idx
        ELSE /\ requested' = parsed.ids
             /\ targets' = sel.result
             /\ option' = opt
             /\ idx' = 1
             /\ pc' = "loop"
             /\ UNCHANGED <<trace, status>>
  /\ UNCHANGED <<inputs, printers, ws_bp, bp, exc, sessions, faults>>

\* ----------------------------------------------------------- collaborators
\* An exception raised inside the try block: control goes to the except clause.
Raise(desc) == /\ exc' = desc
               /\ pc' = "except"

\* A collaborator call that raises uses up one of the run's faults.
Fault == /\ CanRaise
         /\ faults' = faults + 1

\* send_payload, lines 142-144: publish json.dumps(payload) on
\* device/<serial>/request through the session's client.
PublishEv(payload, res) ==
  [EvDoc("publish", idx, entry.id, JsonDumps(payload))
     EXCEPT !.num = entry.serial, !.res = res, !.sess = bp]

\* time.sleep(secs), which returns or raises.
SleepEv(label, secs) ==
  [EvNum("sleep", idx, entry.id, secs)
     EXCEPT !.text = label, !.res = IF SleepRaises(secs) THEN "raise" ELSE "ok"]

\* with_session, lines 148-155: build the BambuPrinter and start its session.
\* A start_session that raises is taken to leave no session behind.
WithSessionStart ==
  /\ pc = "with_session"
  /\ \/ /\ sessions' = Append(sessions,
                              [pos |-> idx, id |-> entry.id, live |-> TRUE, quits |-> 0])
        /\ ws_bp' = Len(sessions) + 1
        /\ Emit(<<[EvRes("start_session", idx, entry.id, "ok")
                     EXCEPT !.sess = Len(sessions) + 1]>>)
        /\ pc' = "connect_wait"
        /\ UNCHANGED <<exc, faults>>
     \/ /\ Fault
        /\ Emit(<<EvRes("start_session", idx, entry.id, "raise")>>)
        /\ Raise("start_session")
        /\ UNCHANGED <<sessions, ws_bp>>
  /\ UNCHANGED <<inputs, printers, selection, option, idx, bp, status>>

\* with_session, lines 156-157: time.sleep(connect_wait); return bp.  The
\* caller's bp is assigned only when with_session returns.
WithSessionSleep ==
  /\ pc = "connect_wait"
  /\ IF SleepRaises(args.connect_wait)
     THEN /\ Emit(<<SleepEv("connect", args.connect_wait)>>)
          /\ Raise("sleep")
          /\ ws_bp' = None
          /\ UNCHANGED bp
     ELSE /\ Emit(<<SleepEv("connect", args.connect_wait)>>)
          /\ bp' = ws_bp
          /\ ws_bp' = None
          /\ pc' = "send_home"
          /\ UNCHANGED exc
  /\ UNCHANGED <<inputs, printers, selection, option, idx, sessions, status, faults>>

\* Mutant: an exception raised by bp.quit() is reported as a failure of the
\* target instead of being passed over.
QuitRaiseReported ==
  /\ sessions' = [sessions EXCEPT ![bp].live = FALSE, ![bp].quits = @ + 1]
  /\ \/ /\ Emit(<<[EvRes("quit", idx, entry.id, "ok") EXCEPT !.sess = bp]>>)
        /\ UNCHANGED faults
     \/ /\ Fault
        /\ Emit(<<[EvRes("quit", idx, entry.id, "raise") EXCEPT !.sess = bp],
                  EvText("failed", idx, entry.id, "quit")>>)

\* bp.quit() inside try / except Exception: pass.  The call counts as the
\* release of the session whether it returns or raises.
Quit ==
  /\ sessions' = [sessions EXCEPT ![bp].live = FALSE, ![bp].quits = @ + 1]
  /\ \/ /\ Emit(<<[EvRes("quit", idx, entry.id, "ok") EXCEPT !.sess = bp]>>)
        /\ UNCHANGED faults
     \/ /\ Fault
        /\ Emit(<<[EvRes("quit", idx, entry.id, "raise") EXCEPT !.sess = bp]>>)

\* The finally clause, lines 199-204 and 245-250, then the next iteration.
Finally ==
  /\ IF bp # None
     THEN Quit
     ELSE UNCHANGED <<sessions, trace, faults>>
  /\ idx' = idx + 1
  /\ pc' = "loop"
  /\ exc' = ""
  /\ UNCHANGED <<inputs, printers, selection, option, ws_bp, bp, status>>

\* --------------------------------------------------------------- cmd_home
InHome == args.cmd = "home"

\* line 185 with the list exhausted, line 206: return 0.
HomeLoopExit ==
  /\ InHome /\ pc = "loop" /\ idx > Len(targets)
  /\ Return(0)
  /\ UNCHANGED <<inputs, printers, selection, option, idx, ws_bp, bp, exc, sessions,
                 trace, faults>>

\* What the dry-run branch of cmd_home prints after the progress line (line 188).
HomeDryLines(pos, e) == <<EvDoc("doc", pos, e.id, JsonDumps(home_payload))>>

\* Mutant: the dry-run branch lacks its continue and falls into the real run.
HomeDryRunNoContinue ==
  /\ InHome /\ pc = "loop" /\ idx <= Len(targets)
  /\ args.dry_run
  /\ Emit(<<Ev("progress", idx, entry.id)>> \o HomeDryLines(idx, entry))
  /\ bp' = None
  /\ pc' = "with_session"
  /\ UNCHANGED <<inputs, printers, selection, option, idx, ws_bp, exc, sessions,
                 status, faults>>

\* lines 185-189: progress line, then the dry-run branch.
HomeDryRun ==
  /\ InHome /\ pc = "loop" /\ idx <= Len(targets)
  /\ args.dry_run
  /\ Emit(<<Ev("progress", idx, entry.id)>> \o HomeDryLines(idx, entry))
  /\ idx' = idx + 1
  /\ UNCHANGED <<inputs, printers, pc, selection, option, ws_bp, bp, exc, sessions,
                 status, faults>>

\* Mutant: bp is not reset, so the finally clause of a target whose session
\* never opened releases the session of an earlier target.
HomeBeginKeepsBp ==
  /\ InHome /\ pc = "loop" /\ idx <= Len(targets)
  /\ ~args.dry_run
  /\ Emit(<<Ev("progress", idx, entry.id)>>)
  /\ pc' = "with_session"
  /\ UNCHANGED <<inputs, printers, selection, option, idx, ws_bp, bp, exc, sessions,
                 status, faults>>

\* lines 185-187 and 191-193: progress line, bp = None, enter the try block.
HomeBegin ==
  /\ InHome /\ pc = "loop" /\ idx <= Len(targets)
  /\ ~args.dry_run
  /\ Emit(<<Ev("progress", idx, entry.id)>>)
  /\ bp' = None
  /\ pc' = "with_session"
  /\ UNCHANGED <<inputs, printers, selection, option, idx, ws_bp, exc, sessions,
                 status, faults>>

\* line 194: send_payload(bp, entry.serial, home_payload).
HomeSend ==
  /\ InHome /\ pc = "send_home"
  /\ \/ /\ Emit(<<PublishEv(home_payload, "ok")>>)
        /\ pc' = "post_wait"
        /\ UNCHANGED <<exc, faults>>
     \/ /\ Fault
        /\ Emit(<<PublishEv(home_payload, "raise")>>)
        /\ Raise("publish")
  /\ UNCHANGED <<inputs, printers, selection, option, idx, ws_bp, bp, sessions, status>>

\* lines 195-196: time.sleep(post_wait); print OK.
HomePostWait ==
  /\ InHome /\ pc = "post_wait"
  /\ IF SleepRaises(args.post_wait)
     THEN /\ Emit(<<SleepEv("post", args.post_wait)>>)
          /\ Raise("sleep")
     ELSE /\ Emit(<<SleepEv("post", args.post_wait), Ev("ok", idx, entry.id)>>)
          /\ pc' = "finally"
          /\ UNCHANGED exc
  /\ UNCHANGED <<inputs, printers, selection, option, idx, ws_bp, bp, sessions, status,
                 faults>>

\* Mutant: the exception is not caught in the loop and reaches main.
HomeExceptEscapes ==
  /\ InHome /\ pc = "except"
  /\ Emit(<<EvText("error", 0, 0, exc)>>)
  /\ Return(1)
  /\ UNCHANGED <<inputs, printers, selection, option, idx, ws_bp, bp, exc, sessions,
                 faults>>

\* lines 197-198: except Exception as exc: print FAILED.
HomeExcept ==
  /\ InHome /\ pc = "except"
  /\ Emit(<<EvText("failed", idx, entry.id, exc)>>)
  /\ pc' = "finally"
  /\ UNCHANGED <<inputs, printers, selection, option, idx, ws_bp, bp, exc, sessions,
                 status, faults>>

\* lines 199-204.
HomeFinally ==
  /\ InHome /\ pc = "finally"
  /\ Finally

\* ---------------------------------------------------------- cmd_calibrate
InCal == args.cmd = "calibrate"

\* line 222 with the list exhausted, line 252: return 0.
CalLoopExit ==
  /\ InCal /\ pc = "loop" /\ idx > Len(targets)
  /\ Return(0)
  /\ UNCHANGED <<inputs, printers, selection, option, idx, ws_bp, bp, exc, sessions,
                 trace, faults>>

\* Mutant: the dry-run branch prints the calibration lines even with home_only.
CalDryLinesIgnoreHomeOnly(pos, e) ==
  <<EvDoc("doc", pos, e.id, JsonDumps(home_payload)),
    EvNum("wait_line", pos, e.id, args.calibration_delay),
    EvDoc("doc", pos, e.id, JsonDumps(cal_payload(option)))>>

\* What the dry-run branch of cmd_calibrate prints after the progress line
\* (lines 225-228).
CalDryLines(pos, e) ==
  <<EvDoc("doc", pos, e.id, JsonDumps(home_payload))>>
  \o (IF ~args.home_only
      THEN <<EvNum("wait_line", pos, e.id, args.calibration_delay),
             EvDoc("doc", pos, e.id, JsonDumps(cal_payload(option)))>>
      ELSE <<>>)

\* lines 222-229: progress line, then the dry-run branch.
CalDryRun ==
  /\ InCal /\ pc = "loop" /\ idx <= Len(targets)
  /\ args.dry_run
  /\ Emit(<<Ev("progress", idx, entry.id)>> \o CalDryLines(idx, entry))
  /\ idx' = idx + 1
  /\ UNCHANGED <<inputs, printers, pc, selection, option, ws_bp, bp, exc, sessions,
                 status, faults>>

\* lines 222-224 and 231-233: progress line, bp = None, enter the try block.
CalBegin ==
  /\ InCal /\ pc = "loop" /\ idx <= Len(targets)
  /\ ~args.dry_run
  /\ Emit(<<Ev("progress", idx, entry.id)>>)
  /\ bp' = None
  /\ pc' = "with_session"
  /\ UNCHANGED <<inputs, printers, selection, option, idx, ws_bp, exc, sessions,
                 status, faults>>

\* Mutant: the real run never sends the calibration payload.
CalSendHomeOnly ==
  /\ InCal /\ pc = "send_home"
  /\ \/ /\ Emit(<<PublishEv(home_payload, "ok")>>)
        /\ pc' = "post_wait"
        /\ UNCHANGED <<exc, faults>>
     \/ /\ Fault
        /\ Emit(<<PublishEv(home_payload, "raise")>>)
        /\ Raise("publish")
  /\ UNCHANGED <<inputs, printers, selection, option, idx, ws_bp, bp, sessions, status>>

\* Mutant: the calibration steps follow the home payload even with home_only.
CalSendHomeAlwaysCalibrates ==
  /\ InCal /\ pc = "send_home"
  /\ \/ /\ Emit(<<PublishEv(home_payload, "ok")>>)
        /\ pc' = "cal_delay"
        /\ UNCHANGED <<exc, faults>>
     \/ /\ Fault
        /\ Emit(<<PublishEv(home_payload, "raise")>>)
        /\ Raise("publish")
  /\ UNCHANGED <<inputs, printers, selection, option, idx, ws_bp, bp, sessions, status>>

\* Mutant: a home publish that raises is ignored and the sequence goes on.
CalSendHomeIgnoresFailure ==
  /\ InCal /\ pc = "send_home"
  /\ \/ /\ Emit(<<PublishEv(home_payload, "ok")>>)
        /\ pc' = IF ~args.home_only THEN "cal_delay" ELSE "post_wait"
        /\ UNCHANGED <<exc, faults>>
     \/ /\ Fault
        /\ Emit(<<PublishEv(home_payload, "raise")>>)
        /\ pc' = IF ~args.home_only THEN "cal_delay" ELSE "post_wait"
        /\ UNCHANGED exc
  /\ UNCHANGED <<inputs, printers, selection, option, idx, ws_bp, bp, sessions, status>>

\* lines 234-236: send the home payload, then branch on home_only.
CalSendHome ==
  /\ InCal /\ pc = "send_home"
  /\ \/ /\ Emit(<<PublishEv(home_payload, "ok")>>)
        /\ pc' = IF ~args.home_only THEN "cal_delay" ELSE "post_wait"
        /\ UNCHANGED <<exc, faults>>
     \/ /\ Fault
        /\ Emit(<<PublishEv(home_payload, "raise")>>)
        /\ Raise("publish")
  /\ UNCHANGED <<inputs, printers, selection, option, idx, ws_bp, bp, sessions, status>>

\* Mutant: the calibration payload follows the home payload without the delay.
CalDelayNoSleep ==
  /\ InCal /\ pc = "cal_delay"
  /\ Emit(<<EvNum("cal_progress", idx, entry.id, option)>>)
  /\ pc' = "send_cal"
  /\ UNCHANGED exc
  /\ UNCHANGED <<inputs, printers, selection, option, idx, ws_bp, bp, sessions, status,
                 faults>>

\* lines 237-238: time.sleep(calibration_delay); print the CALIBRATION line.
CalDelay ==
  /\ InCal /\ pc = "cal_delay"
  /\ IF SleepRaises(args.calibration_delay)
     THEN /\ Emit(<<SleepEv("calibration", args.calibration_delay)>>)
          /\ Raise("sleep")
     ELSE /\ Emit(<<SleepEv("calibration", args.calibration_delay),
                    EvNum("cal_progress", idx, entry.id, option)>>)
          /\ pc' = "send_cal"
          /\ UNCHANGED exc
  /\ UNCHANGED <<inputs, printers, selection, option, idx, ws_bp, bp, sessions, status,
                 faults>>

\* line 239: send_payload(bp, entry.serial, cal_payload).
CalSend ==
  /\ InCal /\ pc = "send_cal"
  /\ \/ /\ Emit(<<PublishEv(cal_payload(option), "ok")>>)
        /\ pc' = "post_wait"
        /\ UNCHANGED <<exc, faults>>
     \/ /\ Fault
        /\ Emit(<<PublishEv(cal_payload(option), "raise")>>)
        /\ Raise("publish")
  /\ UNCHANGED <<inputs, printers, selection, option, idx, ws_bp, bp, sessions, status>>

\* lines 241-242: time.sleep(post_wait); print OK.
CalPostWait ==
  /\ InCal /\ pc = "post_wait"
  /\ IF SleepRaises(args.post_wait)
     THEN /\ Emit(<<SleepEv("post", args.post_wait)>>)
          /\ Raise("sleep")
     ELSE /\ Emit(<<SleepEv("post", args.post_wait), Ev("ok", idx, entry.id)>>)
          /\ pc' = "finally"
          /\ UNCHANGED exc
  /\ UNCHANGED <<inputs, printers, selection, option, idx, ws_bp, bp, sessions, status,
                 faults>>

\* lines 243-244: except Exception as exc: print FAILED.
CalExcept ==
  /\ InCal /\ pc = "except"
  /\ Emit(<<EvText("failed", idx, entry.id, exc)>>)
  /\ pc' = "finally"
  /\ UNCHANGED <<inputs, printers, selection, option, idx, ws_bp, bp, exc, sessions,
                 status, faults>>

\* lines 245-250.
CalFinally ==
  /\ InCal /\ pc = "finally"
  /\ Finally

\* ------------------------------------------------------------------- Spec
Next ==
  \/ MainLoadConfig
  \/ CmdList
  \/ CmdHomeEnter
  \/ HomeLoopExit
  \/ HomeDryRun
  \/ HomeBegin
  \/ WithSessionStart
  \/ WithSessionSleep
  \/ HomeSend
  \/ HomePostWait
  \/ HomeExcept
  \/ HomeFinally
  \/ CmdCalibrateEnter
  \/ CalLoopExit
  \/ CalDryRun
  \/ CalBegin
  \/ CalSendHome
  \/ CalDelay
  \/ CalSend
  \/ CalPostWait
  \/ CalExcept
  \/ CalFinally

Spec == Init /\ [][Next]_vars

\* ------------------------------------------------- the two pure functions
\* SpecFunctions applies parse_printer_ids and build_calibration_option to
\* inputs the runs above do not enumerate: chunks with blanks around the
\* digits, empty and blank chunks, several digits, a blank inside, and all
\* eight combinations of the sub-test flags.
Chunks ==
  {<<>>, <<" ">>, <<"1">>, <<"2">>, <<" ", "1">>, <<"1", " ">>, <<" ", "2", " ">>,
   <<"1", "2">>, <<"1", " ", "2">>}
RawArgs == UNION {[1..n -> Chunks] : n \in 1..MaxChunks}

ParseArgs ==
  {Args("home", raw, FALSE, FALSE, FALSE, FALSE, FALSE, 1, 1, 1) : raw \in RawArgs}
EncodeArgs ==
  {Args("calibrate", <<<<>>>>, FALSE, FALSE, t[1], t[2], t[3], 1, 1, 1) :
     t \in BOOLEAN \X BOOLEAN \X BOOLEAN}

InitFunctions ==
  /\ args \in ParseArgs \cup EncodeArgs
  /\ config_ok = TRUE
  /\ roster = <<>>
  /\ printers = <<>>
  /\ pc = "call"
  /\ requested = <<>>
  /\ targets = <<>>
  /\ option = 0
  /\ idx = 0
  /\ ws_bp = None
  /\ bp = None
  /\ exc = ""
  /\ sessions = <<>>
  /\ trace = <<>>
  /\ status = -1
  /\ faults = 0

\* line 180 / 210: requested = parse_printer_ids(args.printers).
ApplyParse ==
  /\ pc = "call"
  /\ args.cmd = "home"
  /\ LET parsed == parse_printer_ids(args.printers)
     IN /\ requested' = parsed.ids
        /\ exc' = IF parsed.raised THEN "invalid literal" ELSE ""
        /\ pc' = IF parsed.raised THEN "raised" ELSE "parsed"
  /\ UNCHANGED <<inputs, printers, targets, option, idx, ws_bp, bp, sessions, trace,
                 status, faults>>

\* line 213: option = build_calibration_option(...).
ApplyEncode ==
  /\ pc = "call"
  /\ args.cmd = "calibrate"
  /\ option' = build_calibration_option(args.bed_leveling, args.vibration,
                                        args.motor_noise)
  /\ pc' = "encoded"
  /\ UNCHANGED <<inputs, printers, selection, idx, ws_bp, bp, exc, sessions, trace,
                 status, faults>>

NextFunctions ==
  \/ ApplyParse
  \/ ApplyEncode

SpecFunctions == InitFunctions /\ [][NextFunctions]_vars

\* ------------------------------------------------------------------ types
TypeOK ==
  /\ pc \in {"main", "dispatch", "loop", "with_session", "connect_wait", "send_home",
             "cal_delay", "send_cal", "post_wait", "except", "finally", "done"}
  /\ status \in {-1, 0, 1}
  /\ (pc = "done") <=> (status # -1)
  /\ bp \in 0..Len(sessions)
  /\ ws_bp \in 0..Len(sessions)
  /\ faults \in 0..MaxFaults

\* --------------------------------------------------- reading the trace
Requested == parse_printer_ids(args.printers).ids
RosterIds == {roster[k].id : k \in DOMAIN roster}
Absent == SelectSeq(Requested, LAMBDA pid : pid \notin RosterIds)
Sequenced == args.cmd \in {"home", "calibrate"}
\* the run went past selection and the option check, into the for loop
Looped == idx >= 1
Finished == pc = "done" /\ Looped

At(pos) == SelectSeq(trace, LAMBDA e : e.pos = pos)
Count(kind, pos) ==
  Cardinality({k \in DOMAIN trace : trace[k].kind = kind /\ trace[k].pos = pos})
HasKind(kinds) == \E k \in DOMAIN trace : trace[k].kind \in kinds
Raised(pos) ==
  {k \in DOMAIN trace : /\ trace[k].pos = pos
                        /\ trace[k].kind \in {"start_session", "publish", "sleep"}
                        /\ trace[k].res = "raise"}
Live == {s \in DOMAIN sessions : sessions[s].live}
SessionCalls == {"start_session", "publish", "sleep", "quit"}

\* ------------------------------------------------------------------ claims

\* C1: in a non-dry-run home or calibrate run, a session opened for a target
\* is released (quit) exactly once before the next target's processing
\* begins, whichever of the steps 3-6 fails.
C1_ReleasedOnceBeforeNext ==
  \A s \in DOMAIN sessions :
    /\ sessions[s].quits <= 1
    /\ (idx > sessions[s].pos \/ pc = "done") => sessions[s].quits = 1

\* C2: failure isolation.  When the loop has run to its end, every requested
\* target has its progress line; in a real run each has exactly one of OK and
\* FAILED, FAILED exactly when one of its own steps raised and then with that
\* step's description, and the loop was left only by exhausting the targets.
C2_FailureIsolation ==
  /\ (pc = "done" /\ Sequenced /\ Looped) => (idx = Len(targets) + 1 /\ status = 0)
  /\ Finished =>
       \A i \in 1..Len(targets) :
         /\ Count("progress", i) = 1
         /\ ~args.dry_run =>
              /\ Count("ok", i) + Count("failed", i) = 1
              /\ (Count("failed", i) = 1) <=> (Raised(i) # {})
              /\ \A k \in DOMAIN trace :
                   (trace[k].kind = "failed" /\ trace[k].pos = i) =>
                     \E r \in Raised(i) : trace[k].text = trace[r].kind /\ r < k

C2_Witness ==
  /\ Finished /\ ~args.dry_run /\ Len(targets) >= 2
  /\ \E r \in Raised(1) : trace[r].kind = "start_session"
  /\ Count("failed", 1) = 1
  /\ Count("ok", 2) = 1

\* C3: the exit status is 0 only if every requested target reached OK; when
\* a target is reported FAILED the status is 1.
C3_ExitStatus ==
  pc = "done" => (HasKind({"failed"}) => status = 1)

\* C4: at most one session is live, it belongs to the target being
\* processed, and none is live once that target's processing has ended or
\* the run has terminated.
C4_SingleLiveSession ==
  /\ Cardinality(Live) <= 1
  /\ \A s \in Live : sessions[s].pos = idx /\ pc \notin {"loop", "done"}

\* C5: if a requested id is absent from the roster, home and calibrate abort
\* before any progress line, session or publish; the error names every absent
\* id; no selection result is kept; the status is 1.
C5_UnknownAborts ==
  (Sequenced /\ Absent # <<>>) =>
    /\ sessions = <<>>
    /\ targets = <<>>
    /\ \A k \in DOMAIN trace : trace[k].kind \in {"error", "config_error"}
    /\ pc \in {"main", "dispatch", "done"}
    /\ pc = "done" => status = 1
    /\ (pc = "done" /\ config_ok) =>
         /\ Len(trace) = 1
         /\ trace[1].kind = "error"
         /\ trace[1].text = "unknown"
         /\ trace[1].ids = Absent

C5_Witness ==
  /\ Sequenced /\ config_ok /\ pc = "done"
  /\ Len(Absent) >= 2
  /\ trace[1].ids = Absent

\* C6 as stated: with mask 0 and no home-only, calibrate reports exactly one
\* "nothing to calibrate" message, opens no session, publishes nothing and
\* ends with a non-zero status.
NothingCase ==
  /\ args.cmd = "calibrate"
  /\ ~args.home_only
  /\ ~args.bed_leveling /\ ~args.vibration /\ ~args.motor_noise
NothingCount ==
  Cardinality({k \in DOMAIN trace : trace[k].kind = "nothing_to_calibrate"})
C6_Original ==
  (NothingCase /\ config_ok) =>
    /\ sessions = <<>>
    /\ ~HasKind(SessionCalls \cup {"progress", "doc"})
    /\ pc = "done" => (status = 1 /\ NothingCount = 1)

\* C6 amended: the run always aborts with status 1 before contacting any
\* target; the single "nothing to calibrate" message is what it reports when
\* every requested id is in the roster, and an unknown id is reported instead
\* of it otherwise.
C6_NothingToCalibrate ==
  (NothingCase /\ config_ok) =>
    /\ sessions = <<>>
    /\ ~HasKind(SessionCalls \cup {"progress", "doc"})
    /\ pc \in {"main", "dispatch", "done"}
    /\ pc = "done" =>
         /\ status = 1
         /\ Len(trace) = 1
         /\ IF Absent = <<>>
            THEN trace[1].kind = "nothing_to_calibrate"
            ELSE trace[1].kind = "error"

C6_Witness ==
  /\ NothingCase /\ config_ok /\ Absent = <<>> /\ pc = "done"
  /\ Len(Requested) >= 2
  /\ NothingCount = 1

\* C7: in dry-run, home and calibrate open no session, publish nothing and
\* release nothing; every requested occurrence gets its progress line and one
\* home-document line, none is FAILED and the run returns 0.
HomeDocs(pos) ==
  {k \in DOMAIN trace : /\ trace[k].kind = "doc" /\ trace[k].pos = pos
                        /\ trace[k].doc = <<"home", "1">>}
C7_DryRunNoSessions ==
  (Sequenced /\ args.dry_run) =>
    /\ sessions = <<>>
    /\ ~HasKind(SessionCalls \cup {"failed"})
    /\ pc \notin {"with_session", "connect_wait", "send_home", "cal_delay",
                  "send_cal", "post_wait", "except", "finally"}
    /\ Finished =>
         /\ status = 0
         /\ Len(targets) = Len(Requested)
         /\ \A i \in 1..Len(targets) :
              /\ Count("progress", i) = 1
              /\ Cardinality(HomeDocs(i)) = 1

C7_Witness ==
  /\ Sequenced /\ args.dry_run /\ Finished
  /\ Len(Requested) = 2
  /\ Cardinality({k \in DOMAIN trace : trace[k].doc = <<"home", "1">>}) = 2

\* C8: dry-run calibrate prints for each target, in this order, the progress
\* line, the home document and, unless home-only, the delay line with the
\* calibration delay and the calibration document with the encoded option
\* (2 for bed-leveling alone); with home-only nothing follows the home
\* document, whatever the sub-test flags.
EncodedOption ==
  (IF args.bed_leveling THEN 2 ELSE 0) + (IF args.vibration THEN 4 ELSE 0)
    + (IF args.motor_noise THEN 8 ELSE 0)
C8_DryRunCalibrateOutput ==
  (args.cmd = "calibrate" /\ args.dry_run /\ Looped) =>
    \A i \in 1..Len(targets) :
      i < idx =>
        LET evs == At(i) IN
        /\ Len(evs) = IF args.home_only THEN 2 ELSE 4
        /\ evs[1].kind = "progress"
        /\ evs[2].kind = "doc" /\ evs[2].doc = <<"home", "1">>
        /\ ~args.home_only =>
             /\ evs[3].kind = "wait_line"
             /\ evs[3].num = args.calibration_delay
             /\ evs[4].kind = "doc"
             /\ evs[4].doc = <<"calibration", "2", EncodedOption>>

C8_Witness ==
  /\ args.cmd = "calibrate" /\ args.dry_run /\ Finished
  /\ args.bed_leveling /\ ~args.vibration /\ ~args.motor_noise /\ ~args.home_only
  /\ Len(targets) >= 1
  /\ \E k \in DOMAIN trace : trace[k].doc = <<"calibration", "2", 2>>

\* C9: the documents a failure-free real run publishes for a target are, in
\* order, the documents the dry-run of the same command prints for it, and
\* both runs take the targets in the order requested.
Docs(evs) == [k \in DOMAIN evs |-> evs[k].doc]
DryLines(pos, e) ==
  IF args.cmd = "home" THEN HomeDryLines(pos, e) ELSE CalDryLines(pos, e)
DocLines(evs) == SelectSeq(evs, LAMBDA e : e.kind = "doc")
Published(pos) == SelectSeq(At(pos), LAMBDA e : e.kind = "publish")
Progress == SelectSeq(trace, LAMBDA e : e.kind = "progress")
FailureFree == \A i \in 1..Len(targets) : Raised(i) = {}
C9_DryRunFaithful ==
  (Sequenced /\ Finished) =>
    /\ LET progress == Progress
       IN [k \in DOMAIN progress |-> progress[k].id] = Requested
    /\ \A i \in 1..Len(targets) :
         IF args.dry_run
         THEN Docs(DocLines(At(i))) = Docs(DocLines(DryLines(i, targets[i])))
         ELSE FailureFree =>
                Docs(Published(i)) = Docs(DocLines(DryLines(i, targets[i])))

C9_Witness ==
  /\ args.cmd = "calibrate" /\ Finished /\ ~args.dry_run /\ ~args.home_only
  /\ FailureFree
  /\ Len(targets) >= 2
  /\ Len(Published(2)) = 2

\* C10: when every requested id is in the roster, select returns one entry
\* per requested id, in the order requested and with duplicates kept, and the
\* sequencer processes each occurrence once, in that order.
C10_SelectOrder ==
  (Sequenced /\ config_ok /\ pc \notin {"main", "dispatch"} /\ Absent = <<>>) =>
    LET requestedIds == Requested
        progress == Progress
    IN /\ Len(targets) = Len(requestedIds)
       /\ \A i \in DOMAIN targets :
            /\ targets[i].id = requestedIds[i]
            /\ \E k \in DOMAIN roster : roster[k] = targets[i]
       /\ Finished =>
            /\ Len(progress) = Len(requestedIds)
            /\ \A i \in DOMAIN progress :
                 progress[i].pos = i /\ progress[i].id = requestedIds[i]

C10_Witness ==
  /\ Sequenced /\ Finished
  /\ Requested = <<1, 1>>
  /\ [k \in DOMAIN roster |-> roster[k].id] = <<2, 1>>
  /\ [k \in DOMAIN Progress |-> Progress[k].id] = <<1, 1>>

\* C11: for every triple of flags encode returns the OR of 2, 4 and 8 for the
\* flags that are true: a value in {0,2,...,14} with bit 0 clear, 0 exactly
\* when no flag is set, and the flags can be read back from the value
\* (distinct triples give distinct values).
Bit(n, k) == (n \div (2 ^ k)) % 2 = 1
C11_Encode ==
  pc = "encoded" =>
    /\ option = (IF args.bed_leveling THEN 2 ELSE 0) + (IF args.vibration THEN 4 ELSE 0)
                  + (IF args.motor_noise THEN 8 ELSE 0)
    /\ option \in {0, 2, 4, 6, 8, 10, 12, 14}
    /\ ~Bit(option, 0)
    /\ (option = 0) <=> (~args.bed_leveling /\ ~args.vibration /\ ~args.motor_noise)
    /\ Bit(option, 1) <=> args.bed_leveling
    /\ Bit(option, 2) <=> args.vibration
    /\ Bit(option, 3) <=> args.motor_noise

C11_Witness ==
  /\ pc = "encoded"
  /\ args.bed_leveling /\ args.vibration /\ args.motor_noise
  /\ option = 14

\* C12: parsing yields the ids of the non-blank tokens in input order, blanks
\* around a token trimmed, empty and blank tokens dropped, duplicates kept;
\* it raises only for a token that is not an integer once trimmed.
IsBlank(chunk) == \A k \in DOMAIN chunk : chunk[k] = " "
Token(chunk) == SelectSeq(chunk, LAMBDA c : c # " ")
InnerBlank(chunk) ==
  \E i, j, k \in DOMAIN chunk :
    i < j /\ j < k /\ chunk[i] # " " /\ chunk[j] = " " /\ chunk[k] # " "
RECURSIVE Decimal(_, _)
Decimal(acc, digits) ==
  IF digits = <<>> THEN acc
  ELSE Decimal(10 * acc + (CHOOSE d \in 1..9 : DigitChar[d] = Head(digits)),
               Tail(digits))
C12_ParseIds ==
  LET tokens == SelectSeq(args.printers, LAMBDA chunk : ~IsBlank(chunk))
  IN /\ pc = "parsed" =>
          /\ Len(requested) = Len(tokens)
          /\ \A k \in DOMAIN tokens : requested[k] = Decimal(0, Token(tokens[k]))
     /\ pc = "raised" => \E k \in DOMAIN tokens : InnerBlank(tokens[k])

C12_Witness ==
  /\ pc = "parsed"
  /\ args.printers = <<<<" ", "1">>, <<"1", " ">>, <<>>>>
  /\ requested = <<1, 1>>

\* C13: list against an empty roster prints "No printers in config." and
\* returns 1; against a non-empty roster it prints, after the heading, one
\* line per roster entry in roster order and returns 0; it opens no session.
ListLines == SelectSeq(trace, LAMBDA e : e.kind = "list_line")
C13_List ==
  args.cmd = "list" =>
    /\ sessions = <<>>
    /\ ~HasKind(SessionCalls)
    /\ (pc = "done" /\ config_ok) =>
         IF roster = <<>>
         THEN /\ status = 1
              /\ Len(trace) = 1
              /\ trace[1].kind = "no_printers"
         ELSE LET lines == ListLines
              IN /\ status = 0
                 /\ Len(trace) = Len(roster) + 1
                 /\ trace[1].kind = "list_header"
                 /\ Len(lines) = Len(roster)
                 /\ \A k \in DOMAIN roster :
                      /\ lines[k].id = roster[k].id
                      /\ lines[k].num = roster[k].serial
                      /\ trace[k + 1] = lines[k]

C13_Witness ==
  /\ args.cmd = "list" /\ pc = "done" /\ config_ok
  /\ Len(roster) = 2
  /\ [k \in DOMAIN ListLines |-> ListLines[k].id] = <<2, 1>>
  /\ status = 0

\* C14: in a real calibrate run the events of a target are, in order: progress
\* line, session open, connect wait, home publish, then unless home-only the
\* calibration delay, the calibration progress line and the calibration
\* publish, then post wait, OK and session release.  A target whose step
\* raises stops in that order at the raising step.  The calibration document
\* is published only without home-only, only after a successful home publish
\* on the same session, and only after the calibration delay has elapsed
\* between the two.
Step(e) ==
  <<e.kind, IF e.kind = "sleep" THEN e.text
            ELSE IF e.kind = "publish" THEN e.doc[1] ELSE "">>
Steps(evs) == [k \in DOMAIN evs |-> Step(evs[k])]
IsPrefix(s, t) == Len(s) <= Len(t) /\ \A k \in DOMAIN s : s[k] = t[k]
CalOrder ==
  <<<<"progress", "">>, <<"start_session", "">>, <<"sleep", "connect">>,
    <<"publish", "home">>>>
  \o (IF ~args.home_only
      THEN <<<<"sleep", "calibration">>, <<"cal_progress", "">>,
             <<"publish", "calibration">>>>
      ELSE <<>>)
  \o <<<<"sleep", "post">>, <<"ok", "">>, <<"quit", "">>>>
IsCalPublish(e) == e.kind = "publish" /\ e.doc[1] = "calibration"
C14_CalibrateOrder ==
  (args.cmd = "calibrate" /\ ~args.dry_run /\ Looped) =>
    LET order == CalOrder
    IN /\ \A i \in 1..Len(targets) :
            i <= idx =>
              LET evs   == At(i)
                  body  == SelectSeq(evs, LAMBDA e : e.kind # "failed")
                  steps == Steps(body)
                  n     == Len(body)
                  clean == \A k \in DOMAIN body : body[k].res # "raise"
              IN /\ \/ IsPrefix(steps, order)
                    \/ /\ ~clean
                       /\ steps[n] = <<"quit", "">>
                       /\ IsPrefix(SubSeq(steps, 1, n - 1), order)
                 /\ (i < idx /\ Raised(i) = {}) => Steps(evs) = order
                 /\ \A k \in DOMAIN body :
                      (k < n /\ body[k].res = "raise") =>
                        (k = n - 1 /\ body[n].kind = "quit")
       /\ \A k \in DOMAIN trace :
            IsCalPublish(trace[k]) =>
              /\ ~args.home_only
              /\ \E h \in 1..(k - 1) :
                   /\ trace[h].kind = "publish" /\ trace[h].doc[1] = "home"
                   /\ trace[h].res = "ok"
                   /\ trace[h].sess = trace[k].sess
                   /\ trace[h].pos = trace[k].pos
                   /\ \E d \in (h + 1)..(k - 1) :
                        /\ Step(trace[d]) = <<"sleep", "calibration">>
                        /\ trace[d].res = "ok"
                        /\ trace[d].num = args.calibration_delay
                        /\ trace[d].pos = trace[k].pos

C14_Witness ==
  /\ args.cmd = "calibrate" /\ ~args.dry_run /\ ~args.home_only /\ Finished
  /\ Len(targets) >= 1
  /\ Steps(At(1)) = CalOrder
  /\ Len(At(1)) = 10

\* C15: targets are processed one at a time in the order the selector
\* produced, which is the order requested: every event of the i-th target
\* (progress line, session open, publishes, waits, OK/FAILED, release)
\* precedes every event of the (i+1)-th, also when the i-th fails; each
\* target's events start with its progress line, and a session is only used
\* and released while its own target is being processed.
C15_StrictlySequential ==
  (Sequenced /\ Looped) =>
    /\ Len(targets) = Len(requested)
    /\ \A i \in DOMAIN targets : targets[i].id = requested[i]
    /\ \A k \in DOMAIN trace :
         LET e == trace[k]
         IN /\ e.pos \in 1..Len(targets)
            /\ e.pos <= idx
            /\ e.id = targets[e.pos].id
            /\ k > 1 => trace[k - 1].pos <= e.pos
            /\ (k = 1 \/ trace[k - 1].pos < e.pos) <=> e.kind = "progress"
            /\ e.sess # None => sessions[e.sess].pos = e.pos
    /\ \A s \in DOMAIN sessions : sessions[s].pos <= idx

C15_Witness ==
  /\ Sequenced /\ Finished /\ ~args.dry_run
  /\ Len(targets) = 2
  /\ \E r \in Raised(1) : trace[r].kind = "publish"
  /\ Count("failed", 1) = 1
  /\ Count("quit", 1) = 1
  /\ Count("start_session", 2) = 1
  /\ Count("quit", 2) = 1

\* C16: an error raised while releasing a session is swallowed.  The target
\* keeps the one report it already had (OK if none of its steps raised,
\* otherwise FAILED with the raising step as its reason), nothing is printed
\* for it after the release, no error line is printed, and the loop goes on
\* to the next requested target and ends only by exhausting the targets.
QuitRaises(k) == trace[k].kind = "quit" /\ trace[k].res = "raise"
C16_ReleaseErrorSwallowed ==
  \A k \in DOMAIN trace :
    QuitRaises(k) =>
      LET i == trace[k].pos
      IN /\ Count("ok", i) + Count("failed", i) = 1
         /\ trace[k - 1].pos = i
         /\ trace[k - 1].kind \in {"ok", "failed"}
         /\ trace[k - 1].kind = "ok" <=> Raised(i) = {}
         /\ trace[k - 1].kind = "failed" =>
              /\ trace[k - 1].text # "quit"
              /\ \E r \in Raised(i) : trace[k - 1].text = trace[r].kind
         /\ \A l \in DOMAIN trace : l > k => trace[l].pos > i
         /\ ~HasKind({"error"})
         /\ idx > i
         /\ (k < Len(trace)) => (trace[k + 1].kind = "progress" /\ trace[k + 1].pos = i + 1)
         /\ pc = "done" =>
              /\ idx = Len(targets) + 1
              /\ status = 0
              /\ \A j \in (i + 1)..Len(targets) : Count("progress", j) = 1

C16_Witness ==
  /\ Finished /\ ~args.dry_run /\ Len(targets) = 2
  /\ \E k \in DOMAIN trace : QuitRaises(k) /\ trace[k].pos = 1
  /\ \E r \in Raised(1) : trace[r].kind = "publish"
  /\ Count("failed", 1) = 1
  /\ Count("ok", 2) = 1

\* C17: in a real run a target has at most one report line, and exactly one
\* once it is processed: OK or FAILED, never both.  OK is reported only when
\* the session open, every publish and every wait of the target returned, and
\* all of them took place.  After a step of a target raises, nothing more is
\* done to that target except reporting FAILED and releasing: in particular
\* no document is published after a failed home publish.
StepKinds == {"start_session", "publish", "sleep"}
ExpectedPublishes == IF args.cmd = "calibrate" /\ ~args.home_only THEN 2 ELSE 1
ExpectedSleeps == IF args.cmd = "calibrate" /\ ~args.home_only THEN 3 ELSE 2
C17_OneTerminalReport ==
  (Sequenced /\ ~args.dry_run /\ Looped) =>
    \A i \in 1..Len(targets) :
      LET evs == At(i)
          oks == {k \in DOMAIN evs : evs[k].kind = "ok"}
          fls == {k \in DOMAIN evs : evs[k].kind = "failed"}
      IN /\ Cardinality(oks \cup fls) <= 1
         /\ i < idx => Cardinality(oks \cup fls) = 1
         /\ oks # {} =>
              /\ \A k \in DOMAIN evs : evs[k].kind \in StepKinds => evs[k].res = "ok"
              /\ Count("start_session", i) = 1
              /\ Count("publish", i) = ExpectedPublishes
              /\ Count("sleep", i) = ExpectedSleeps
              /\ \A k \in DOMAIN evs : evs[k].kind \in StepKinds => \A o \in oks : k < o
         /\ \A k \in DOMAIN evs :
              (evs[k].kind \in StepKinds /\ evs[k].res = "raise") =>
                /\ \A l \in DOMAIN evs : l > k => evs[l].kind \in {"failed", "quit"}
                /\ k < Len(evs) => evs[k + 1].kind = "failed"
         /\ \A k \in DOMAIN evs :
              evs[k].kind \in {"ok", "failed"} =>
                \A l \in DOMAIN evs : l > k => evs[l].kind = "quit"

C17_Witness ==
  /\ args.cmd = "calibrate" /\ ~args.dry_run /\ ~args.home_only /\ Finished
  /\ Len(targets) = 2
  /\ \E r \in Raised(1) : trace[r].kind = "publish" /\ trace[r].doc[1] = "home"
  /\ Len(Published(1)) = 1
  /\ Count("failed", 1) = 1 /\ Count("ok", 1) = 0
  /\ Count("ok", 2) = 1 /\ Len(Published(2)) = 2

\* C18: calibrate with home-only behaves like home, whatever the sub-test
\* flags.  For each failure pattern (which of session open, connect wait,
\* home publish, post wait raises, if any, and whether the release raises)
\* there is one sequence of session open, waits, home publish, OK/FAILED and
\* release, and a target of either command shows exactly the sequence of its
\* pattern, with the home document, the target's serial and the configured
\* waits; in dry-run both print the progress line and the home document; both
\* end with the same status and neither prints "nothing to calibrate".
HomeLike == args.cmd = "home" \/ (args.cmd = "calibrate" /\ args.home_only)
HomeSteps ==
  <<<<"start_session", "">>, <<"sleep", "connect">>, <<"publish", "home">>,
    <<"sleep", "post">>>>
\* n in 1..4: step n raises; n = 5: none does.  q: the outcome of the release.
HomePath(n, q) ==
  <<<<"progress", "", "">>>>
  \o [k \in 1..(IF n < 4 THEN n ELSE 4) |->
        <<HomeSteps[k][1], HomeSteps[k][2], IF k = n THEN "raise" ELSE "ok">>]
  \o <<IF n = 5 THEN <<"ok", "", "">> ELSE <<"failed", HomeSteps[n][1], "">>>>
  \o (IF n >= 3 THEN <<<<"quit", "", q>>>> ELSE <<>>)
HomePaths == {HomePath(n, q) : n \in 1..5, q \in {"ok", "raise"}}
Outline(e) == <<e.kind, IF e.kind = "failed" THEN e.text ELSE Step(e)[2], e.res>>
Outlines(evs) == [k \in DOMAIN evs |-> Outline(evs[k])]
C18_HomeOnlyIsHome ==
  (HomeLike /\ config_ok) =>
    /\ NothingCount = 0
    /\ (pc = "done" /\ ~Looped) =>
         (status = 1 /\ Len(trace) = 1 /\ trace[1].kind = "error")
    /\ (pc = "done" /\ Looped) => status = 0
    /\ Looped =>
         \A i \in 1..Len(targets) :
           i < idx =>
             LET evs == At(i)
             IN IF args.dry_run
                THEN evs = <<Ev("progress", i, targets[i].id)>>
                           \o HomeDryLines(i, targets[i])
                ELSE /\ Outlines(evs) \in HomePaths
                     /\ \A k \in DOMAIN evs :
                          /\ evs[k].kind = "publish" =>
                               /\ evs[k].doc = JsonDumps(home_payload)
                               /\ evs[k].num = targets[i].serial
                          /\ Step(evs[k]) = <<"sleep", "connect">> =>
                               evs[k].num = args.connect_wait
                          /\ Step(evs[k]) = <<"sleep", "post">> =>
                               evs[k].num = args.post_wait

C18_Witness ==
  /\ args.cmd = "calibrate" /\ args.home_only /\ ~args.dry_run /\ Finished
  /\ args.vibration /\ args.motor_noise
  /\ Len(targets) = 2
  /\ Outlines(At(1)) = HomePath(3, "raise")
  /\ Outlines(At(2)) = HomePath(5, "ok")

\* C19: calibrate checks the selection before the option mask.  A run that
\* ends before the loop has status 1, no session and one line of output; that
\* line is "nothing to calibrate" exactly when the mask is 0 without
\* home-only and every requested id was parsed and found, the targets then
\* being already selected; with an unknown id the line is the unknown-target
\* error naming the absent ids, also when the mask is 0 without home-only.
C19_SelectionBeforeMask ==
  (args.cmd = "calibrate" /\ config_ok /\ pc = "done" /\ ~Looped) =>
    LET parsed == parse_printer_ids(args.printers)
        absent == Absent
    IN /\ status = 1
       /\ sessions = <<>>
       /\ Len(trace) = 1
       /\ trace[1].kind \in {"error", "nothing_to_calibrate"}
       /\ trace[1].kind = "nothing_to_calibrate" <=>
            (NothingCase /\ ~parsed.raised /\ absent = <<>>)
       /\ trace[1].kind = "nothing_to_calibrate" =>
            /\ Len(targets) = Len(parsed.ids)
            /\ \A i \in DOMAIN targets : targets[i].id = parsed.ids[i]
       /\ (~parsed.raised /\ absent # <<>>) =>
            /\ trace[1].kind = "error"
            /\ trace[1].text = "unknown"
            /\ trace[1].ids = absent
            /\ targets = <<>>

C19_Witness ==
  /\ NothingCase /\ config_ok /\ pc = "done"
  /\ Absent # <<>>
  /\ Len(trace) = 1 /\ trace[1].kind = "error" /\ trace[1].text = "unknown"
  /\ status = 1 /\ sessions = <<>>

====
